---- MODULE Spec2Model ----
(***************************************************************************)
(* EventExtractionDataModule of nlhappy: the label vocabularies built      *)
(* lazily from the training frame, and the four tag encoders               *)
(* (gplinker_transform, blinker_transform, graph_transform,                *)
(* sparse_transform) that turn annotated events into tag tensors.          *)
(* Beside it, the thresholding of logits into selected cells by the span   *)
(* models BiaffineForEntityExtraction and BertGlobalPointer.               *)
(*                                                                         *)
(* A label is a Python str, modelled as the sequence of its code points.   *)
(* A dense tag tensor (torch.zeros with cells set to 1) is modelled as the *)
(* set of its nonzero cells <<label id, token i, token j>>.  Token indices *)
(* and label ids are 0-based, as in the source.                            *)
(***************************************************************************)
EXTENDS Integers, Sequences, FiniteSets, TLC

VARIABLES
    transform,   \* hparams.transform, the constructor argument
    stage,       \* "new", "constructed", "ready", or the exception that ended it
    hparams,     \* what setup stores: id2label / id2event / id2role
    installed,   \* the encoder set_transform installed for each split
    train_df,    \* the training frame: one row per example, a row is its events
    cache,       \* the lru_cache of event_labels, role_labels, combined_labels
    observed,    \* the label lists handed to any reader of a cached property
    pc,          \* per reader thread: "idle", or the property it is computing
    examples,    \* the batch object handed to the installed encoder
    loaded,      \* the dataset rows the batch was decoded from
    split,       \* the split the batch belongs to
    calls,       \* encoder calls made on the batch object
    out,         \* what the last encoder call returned, or the exception it raised
    net          \* a span model: its threshold, the logits at hand, what it selected

vars == <<transform, stage, hparams, installed, train_df, cache, observed, pc,
          examples, loaded, split, calls, out, net>>

----------------------------------------------------------------------------
(* Strings *)

\* '触发词'
TriggerWord == <<35302, 21457, 35789>>

\* '-'
Dash == <<45>>

Min(a, b) == IF a <= b THEN a ELSE b

Max(a, b) == IF a >= b THEN a ELSE b

\* Python's str.__lt__: code point by code point, a proper prefix is smaller.
RECURSIVE StrLess(_, _)
StrLess(a, b) ==
    IF Len(b) = 0 THEN FALSE
    ELSE IF Len(a) = 0 THEN TRUE
    ELSE IF Head(a) # Head(b) THEN Head(a) < Head(b)
    ELSE StrLess(Tail(a), Tail(b))

\* Python's tuple.__lt__ on a pair of str.
PairLess(p, q) ==
    IF p[1] # q[1] THEN StrLess(p[1], q[1]) ELSE StrLess(p[2], q[2])

\* The order sorted() uses: str.__lt__ for labels, tuple.__lt__ for label pairs.
Less(kind, x, y) == IF kind = "tuple" THEN PairLess(x, y) ELSE StrLess(x, y)

\* sorted(): a stable sort; built by insertion.
RECURSIVE Insert(_, _, _)
Insert(x, s, kind) ==
    IF Len(s) = 0 THEN <<x>>
    ELSE IF Less(kind, x, Head(s)) THEN <<x>> \o s
    ELSE <<Head(s)>> \o Insert(x, Tail(s), kind)

RECURSIVE sorted(_, _)
sorted(s, kind) ==
    IF Len(s) = 0 THEN <<>>
    ELSE Insert(s[Len(s)], sorted(SubSeq(s, 1, Len(s) - 1), kind), kind)

Range(s) == {s[i] : i \in 1..Len(s)}

\* pandas drop_duplicates(): keeps the first occurrence, in order.
RECURSIVE drop_duplicates(_)
drop_duplicates(s) ==
    IF Len(s) = 0 THEN <<>>
    ELSE LET front == drop_duplicates(SubSeq(s, 1, Len(s) - 1))
             x == s[Len(s)]
         IN IF x \in Range(front) THEN front ELSE Append(front, x)

\* {l: i for i, l in enumerate(labels)}: a later duplicate overwrites the id.
enumerate2id(labels) ==
    [l \in Range(labels) |->
        (CHOOSE i \in 1..Len(labels) :
            labels[i] = l /\ \A j \in 1..Len(labels) : labels[j] = l => j <= i) - 1]

\* {i: l for l, i in label2id.items()}
invert(label2id) ==
    [i \in {label2id[l] : l \in DOMAIN label2id} |->
        CHOOSE l \in DOMAIN label2id : label2id[l] = i]

\* np.concatenate over a sequence of lists
RECURSIVE concatenate(_)
concatenate(ss) ==
    IF Len(ss) = 0 THEN <<>> ELSE Head(ss) \o concatenate(Tail(ss))

Returned(v) == [ok |-> TRUE, val |-> v]

\* np.concatenate of zero arrays: "need at least one array to concatenate"
ValueError == [ok |-> FALSE, val |-> <<>>]

----------------------------------------------------------------------------
(* Label vocabularies *)

event_labels_compute(df) ==
    IF Len(df) = 0 THEN ValueError
    ELSE Returned(drop_duplicates(
            [i \in 1..Len(concatenate(df)) |-> concatenate(df)[i].label]))

role_labels_compute(df) ==
    IF Len(df) = 0 THEN ValueError
    ELSE LET events == concatenate(df)
             roles == [i \in 1..Len(events) |-> events[i].roles]
         IN IF Len(roles) = 0 THEN ValueError
            ELSE Returned(drop_duplicates(
                    [i \in 1..Len(concatenate(roles)) |->
                        concatenate(roles)[i].label]))

RECURSIVE get_labels_roles(_, _, _)
get_labels_roles(label, roles, labels) ==
    IF Len(roles) = 0 THEN labels
    ELSE LET pair_label == <<label, Head(roles).label>>
         IN get_labels_roles(label, Tail(roles),
                IF pair_label \in Range(labels) THEN labels
                ELSE Append(labels, pair_label))

\* get_labels without labels.append((label, '触发词')).
get_labels_roles_only(e) == get_labels_roles(e.label, e.roles, <<>>)

get_labels(e) == get_labels_roles(e.label, e.roles, <<<<e.label, TriggerWord>>>>)

combined_labels_compute(df) ==
    IF Len(df) = 0 THEN ValueError
    ELSE LET events == concatenate(df)
             per_event == [i \in 1..Len(events) |-> get_labels(events[i])]
         IN IF Len(per_event) = 0 THEN ValueError
            ELSE Returned(sorted(drop_duplicates(concatenate(per_event)), "tuple"))

Properties == {"event_labels", "role_labels", "combined_labels"}

compute(p, df) ==
    CASE p = "event_labels" -> event_labels_compute(df)
      [] p = "role_labels" -> role_labels_compute(df)
      [] p = "combined_labels" -> combined_labels_compute(df)

Empty == [hit |-> FALSE, val |-> <<>>]

\* A cache that keeps one slot for all properties of the object: once
\* event_labels is stored, a lookup of role_labels hits that entry.
lru_cache_shared(c, p) ==
    IF p = "role_labels" /\ c["event_labels"].hit THEN c["event_labels"] ELSE c[p]

\* functools.lru_cache on a property: the slot of that property, keyed by self.
lru_cache_get(c, p) == c[p]

\* A call that returned stores its result; an exception stores nothing.
lru_cache_put(c, p, r) ==
    IF r.ok THEN [c EXCEPT ![p] = [hit |-> TRUE, val |-> r.val]] ELSE c

\* One whole access to a cached property: the result, and the cache after it.
access(c, p, df) ==
    IF lru_cache_get(c, p).hit
    THEN [res |-> Returned(lru_cache_get(c, p).val), cache |-> c]
    ELSE [res |-> compute(p, df), cache |-> lru_cache_put(c, p, compute(p, df))]

trigger_labels_of(labels) ==
    [i \in 1..Len(labels) |-> labels[i] \o Dash \o TriggerWord]

ent_labels_of(events, roles) == sorted(trigger_labels_of(events) \o roles, "str")

----------------------------------------------------------------------------
(* Tokenizer and offset alignment *)

\* get_max_length(): the fixed sequence length of every batch.
get_max_length == 5

\* The tokenizer called with padding='max_length', truncation=True on a text
\* longer than max_length - 2 characters, one token per character:
\* [CLS] c0 c1 ... [SEP]; a special token has the empty span (0, 0).
tokenizer(max_length) ==
    [k \in 1..max_length |->
        IF k = 1 \/ k = max_length THEN <<0, 0>> ELSE <<k - 2, k - 1>>]

\* char_idx_to_token(char_idx, offset_mapping): the first token whose span
\* contains the character; raises when there is none.
char_idx_to_token(char_idx, offset_mapping) ==
    LET hits == {k \in 1..Len(offset_mapping) :
                    offset_mapping[k][1] <= char_idx /\ char_idx < offset_mapping[k][2]}
    IN IF hits = {} THEN [ok |-> FALSE, val |-> 0]
       ELSE [ok |-> TRUE, val |-> (CHOOSE k \in hits : \A m \in hits : k <= m) - 1]

\* An except clause that logs and raises again.
warning_reraise(acc, role) == [acc EXCEPT !.status = "KeyError"]

\* log.warning(f'role {role["text"]} ...') inside the except clause: a role
\* dict without a 'text' key raises KeyError out of the handler.
warning(acc, role) ==
    IF role.text THEN acc ELSE [acc EXCEPT !.status = "KeyError"]

\* The tag containers of one example, before its events are visited.
zeros ==
    [status |-> "ok", events |-> <<>>, role_tags |-> {}, head_tags |-> {},
     tail_tags |-> {}]

----------------------------------------------------------------------------
(* gplinker_transform *)

\* The pair cells indexed as (role1, role2), without min/max.
gplinker_role2_unordered(acc, _role1_head, _role1_tail, role2, offset_mapping) ==
    LET _role2_head == char_idx_to_token(role2.offset[1], offset_mapping)
        _role2_tail == char_idx_to_token(role2.offset[2] - 1, offset_mapping)
    IN IF _role2_head.ok /\ _role2_tail.ok
       THEN [acc EXCEPT
               !.head_tags = @ \cup {<<0, _role1_head, _role2_head.val>>},
               !.tail_tags = @ \cup {<<0, _role1_tail, _role2_tail.val>>}]
       ELSE [acc EXCEPT !.status = IF role2.text THEN @ ELSE "KeyError"]

gplinker_role2(acc, _role1_head, _role1_tail, role2, offset_mapping) ==
    LET role2_head == role2.offset[1]
        role2_tail == role2.offset[2] - 1
        _role2_head == char_idx_to_token(role2_head, offset_mapping)
        _role2_tail == char_idx_to_token(role2_tail, offset_mapping)
    IN IF _role2_head.ok /\ _role2_tail.ok
       THEN [acc EXCEPT
               !.head_tags = @ \cup {<<0, Min(_role1_head, _role2_head.val),
                                        Max(_role1_head, _role2_head.val)>>},
               !.tail_tags = @ \cup {<<0, Min(_role1_tail, _role2_tail.val),
                                        Max(_role1_tail, _role2_tail.val)>>}]
       ELSE warning(acc, role2)

RECURSIVE gplinker_inner(_, _, _, _, _, _, _)
gplinker_inner(acc, roles, i, j, _role1_head, _role1_tail, offset_mapping) ==
    IF j > Len(roles) \/ acc.status # "ok" THEN acc
    ELSE gplinker_inner(
            IF j > i
            THEN gplinker_role2(acc, _role1_head, _role1_tail, roles[j], offset_mapping)
            ELSE acc,
            roles, i, j + 1, _role1_head, _role1_tail, offset_mapping)

gplinker_role1(acc, roles, i, e_label, offset_mapping, combined2id) ==
    LET role1 == roles[i]
        label == <<e_label, role1.label>>
        role1_head == role1.offset[1]
        role1_tail == role1.offset[2] - 1
        _role1_head == char_idx_to_token(role1_head, offset_mapping)
        _role1_tail == char_idx_to_token(role1_tail, offset_mapping)
    IN IF _role1_head.ok /\ _role1_tail.ok /\ label \in DOMAIN combined2id
       THEN gplinker_inner(
               [acc EXCEPT !.role_tags =
                   @ \cup {<<combined2id[label], _role1_head.val, _role1_tail.val>>}],
               roles, i, 1, _role1_head.val, _role1_tail.val, offset_mapping)
       ELSE warning(acc, role1)

RECURSIVE gplinker_outer(_, _, _, _, _, _)
gplinker_outer(acc, roles, i, e_label, offset_mapping, combined2id) ==
    IF i > Len(roles) \/ acc.status # "ok" THEN acc
    ELSE gplinker_outer(
            gplinker_role1(acc, roles, i, e_label, offset_mapping, combined2id),
            roles, i + 1, e_label, offset_mapping, combined2id)

\* One event: the trigger is appended to the event's own role list.
gplinker_event(acc, event, offset_mapping, combined2id) ==
    LET roles == Append(event.roles,
                    [label |-> TriggerWord, offset |-> event.trigger.offset,
                     text |-> FALSE])
        visited == [acc EXCEPT !.events = Append(@, [event EXCEPT !.roles = roles])]
    IN gplinker_outer(visited, roles, 1, event.label, offset_mapping, combined2id)

RECURSIVE gplinker_events(_, _, _, _)
gplinker_events(acc, events, offset_mapping, combined2id) ==
    IF Len(events) = 0 THEN acc
    ELSE IF acc.status # "ok" THEN [acc EXCEPT !.events = @ \o events]
    ELSE gplinker_events(
            gplinker_event(acc, Head(events), offset_mapping, combined2id),
            Tail(events), offset_mapping, combined2id)

\* The tensors of one example.
gplinker_example(events, offset_mapping, combined2id) ==
    LET acc == gplinker_events(zeros, events, offset_mapping, combined2id)
        n == Cardinality(DOMAIN combined2id)
    IN [status |-> acc.status, events |-> acc.events,
        role_tags |-> [labels |-> n, cells |-> acc.role_tags],
        head_tags |-> [labels |-> 1, cells |-> acc.head_tags],
        tail_tags |-> [labels |-> 1, cells |-> acc.tail_tags]]

\* for i, text in enumerate(batch_text): the examples before the first one
\* that raises were visited whole, that one as far as it got, the rest not.
batch_loop(results, batch) ==
    LET raising == {b \in 1..Len(results) : results[b].status # "ok"}
        first == IF raising = {} THEN Len(results) + 1
                 ELSE CHOOSE b \in raising : \A c \in raising : b <= c
    IN [status |-> IF raising = {} THEN "ok" ELSE results[first].status,
        examples |-> [events |-> [b \in 1..Len(batch) |->
                        IF b <= first THEN results[b].events ELSE batch[b]]],
        role_tags |-> IF raising = {} THEN [b \in 1..Len(batch) |-> results[b].role_tags]
                      ELSE <<>>,
        head_tags |-> IF raising = {} THEN [b \in 1..Len(batch) |-> results[b].head_tags]
                      ELSE <<>>,
        tail_tags |-> IF raising = {} THEN [b \in 1..Len(batch) |-> results[b].tail_tags]
                      ELSE <<>>]

\* An exception before any example was visited.
raised(exception, batch) ==
    [status |-> exception, examples |-> batch, role_tags |-> <<>>,
     head_tags |-> <<>>, tail_tags |-> <<>>]

\* combined2id is what the property returned: [ok, val], val the dict.
gplinker_transform(batch, combined2id) ==
    IF Len(batch.events) > 0 /\ ~combined2id.ok THEN raised("ValueError", batch)
    ELSE batch_loop(
            [b \in 1..Len(batch.events) |->
                gplinker_example(batch.events[b], tokenizer(get_max_length),
                                 combined2id.val)],
            batch.events)

----------------------------------------------------------------------------
(* blinker_transform *)

blinker_role2(acc, _role1_head, _role1_tail, role2, e_label, offset_mapping, event2id) ==
    LET role2_head == role2.offset[1]
        role2_tail == role2.offset[2] - 1
        _role2_head == char_idx_to_token(role2_head, offset_mapping)
        _role2_tail == char_idx_to_token(role2_tail, offset_mapping)
    IN IF _role2_head.ok /\ _role2_tail.ok /\ e_label \in DOMAIN event2id
       THEN [acc EXCEPT
               !.head_tags = @ \cup {<<event2id[e_label],
                                        Min(_role1_head, _role2_head.val),
                                        Max(_role1_head, _role2_head.val)>>},
               !.tail_tags = @ \cup {<<event2id[e_label],
                                        Min(_role1_tail, _role2_tail.val),
                                        Max(_role1_tail, _role2_tail.val)>>}]
       ELSE warning(acc, role2)

RECURSIVE blinker_inner(_, _, _, _, _, _, _, _, _)
blinker_inner(acc, roles, i, j, _role1_head, _role1_tail, e_label, offset_mapping, event2id) ==
    IF j > Len(roles) \/ acc.status # "ok" THEN acc
    ELSE blinker_inner(
            IF j > i
            THEN blinker_role2(acc, _role1_head, _role1_tail, roles[j], e_label,
                               offset_mapping, event2id)
            ELSE acc,
            roles, i, j + 1, _role1_head, _role1_tail, e_label, offset_mapping, event2id)

blinker_role1(acc, roles, i, e_label, offset_mapping, event2id) ==
    LET role1 == roles[i]
        role1_head == role1.offset[1]
        role1_tail == role1.offset[2] - 1
        _role1_head == char_idx_to_token(role1_head, offset_mapping)
        _role1_tail == char_idx_to_token(role1_tail, offset_mapping)
    IN IF _role1_head.ok /\ _role1_tail.ok /\ e_label \in DOMAIN event2id
       THEN blinker_inner(
               [acc EXCEPT !.role_tags =
                   @ \cup {<<event2id[e_label], _role1_head.val, _role1_tail.val>>}],
               roles, i, 1, _role1_head.val, _role1_tail.val, e_label,
               offset_mapping, event2id)
       ELSE warning(acc, role1)

RECURSIVE blinker_outer(_, _, _, _, _, _)
blinker_outer(acc, roles, i, e_label, offset_mapping, event2id) ==
    IF i > Len(roles) \/ acc.status # "ok" THEN acc
    ELSE blinker_outer(
            blinker_role1(acc, roles, i, e_label, offset_mapping, event2id),
            roles, i + 1, e_label, offset_mapping, event2id)

blinker_event(acc, event, offset_mapping, event2id) ==
    LET roles == Append(event.roles,
                    [label |-> event.label \o Dash \o TriggerWord,
                     offset |-> event.trigger.offset, text |-> FALSE])
        visited == [acc EXCEPT !.events = Append(@, [event EXCEPT !.roles = roles])]
    IN blinker_outer(visited, roles, 1, event.label, offset_mapping, event2id)

RECURSIVE blinker_events(_, _, _, _)
blinker_events(acc, events, offset_mapping, event2id) ==
    IF Len(events) = 0 THEN acc
    ELSE IF acc.status # "ok" THEN [acc EXCEPT !.events = @ \o events]
    ELSE blinker_events(
            blinker_event(acc, Head(events), offset_mapping, event2id),
            Tail(events), offset_mapping, event2id)

blinker_example(events, offset_mapping, event_labels, event2id) ==
    LET acc == blinker_events(zeros, events, offset_mapping, event2id)
        n == Len(event_labels)
    IN [status |-> acc.status, events |-> acc.events,
        role_tags |-> [labels |-> n, cells |-> acc.role_tags],
        head_tags |-> [labels |-> n, cells |-> acc.head_tags],
        tail_tags |-> [labels |-> n, cells |-> acc.tail_tags]]

\* event_labels is what the property returned: [ok, val], val the list.
blinker_transform(batch, event_labels) ==
    IF Len(batch.events) > 0 /\ ~event_labels.ok THEN raised("ValueError", batch)
    ELSE batch_loop(
            [b \in 1..Len(batch.events) |->
                blinker_example(batch.events[b], tokenizer(get_max_length),
                                event_labels.val, enumerate2id(event_labels.val))],
            batch.events)

----------------------------------------------------------------------------
(* graph_transform *)

\* The pair cells ordered with min/max, as the other encoders index them.
graph_role2_minmax(acc, _role1_head, _role1_tail, role2, e_id, offset_mapping) ==
    LET _role2_head == char_idx_to_token(role2.offset[1], offset_mapping)
        _role2_tail == char_idx_to_token(role2.offset[2] - 1, offset_mapping)
    IN IF _role2_head.ok /\ _role2_tail.ok
       THEN [acc EXCEPT
               !.head_tags = @ \cup {<<e_id, Min(_role1_head, _role2_head.val),
                                        Max(_role1_head, _role2_head.val)>>},
               !.tail_tags = @ \cup {<<e_id, Min(_role1_tail, _role2_tail.val),
                                        Max(_role1_tail, _role2_tail.val)>>}]
       ELSE [acc EXCEPT !.status = IF role2.text THEN @ ELSE "KeyError"]

graph_role2(acc, _role1_head, _role1_tail, role2, e_id, offset_mapping) ==
    LET role2_head == role2.offset[1]
        role2_tail == role2.offset[2] - 1
        _role2_head == char_idx_to_token(role2_head, offset_mapping)
        _role2_tail == char_idx_to_token(role2_tail, offset_mapping)
    IN IF _role2_head.ok /\ _role2_tail.ok
       THEN [acc EXCEPT
               !.head_tags = @ \cup {<<e_id, _role1_head, _role2_head.val>>},
               !.tail_tags = @ \cup {<<e_id, _role1_tail, _role2_tail.val>>}]
       ELSE warning(acc, role2)

RECURSIVE graph_inner(_, _, _, _, _, _, _, _)
graph_inner(acc, roles, i, j, _role1_head, _role1_tail, e_id, offset_mapping) ==
    IF j > Len(roles) \/ acc.status # "ok" THEN acc
    ELSE graph_inner(
            IF j # i
            THEN graph_role2(acc, _role1_head, _role1_tail, roles[j], e_id,
                             offset_mapping)
            ELSE acc,
            roles, i, j + 1, _role1_head, _role1_tail, e_id, offset_mapping)

graph_role1(acc, roles, i, e_id, offset_mapping) ==
    LET role1 == roles[i]
        role1_head == role1.offset[1]
        role1_tail == role1.offset[2] - 1
        _role1_head == char_idx_to_token(role1_head, offset_mapping)
        _role1_tail == char_idx_to_token(role1_tail, offset_mapping)
    IN IF _role1_head.ok /\ _role1_tail.ok
       THEN graph_inner(
               [acc EXCEPT !.role_tags =
                   @ \cup {<<0, _role1_head.val, _role1_tail.val>>}],
               roles, i, 1, _role1_head.val, _role1_tail.val, e_id, offset_mapping)
       ELSE warning(acc, role1)

RECURSIVE graph_outer(_, _, _, _, _)
graph_outer(acc, roles, i, e_id, offset_mapping) ==
    IF i > Len(roles) \/ acc.status # "ok" THEN acc
    ELSE graph_outer(graph_role1(acc, roles, i, e_id, offset_mapping),
                     roles, i + 1, e_id, offset_mapping)

\* e_id = self.event2id[e_label] stands outside any try: an event label that
\* is not in the vocabulary raises KeyError before the trigger is appended.
graph_event(acc, event, offset_mapping, event2id) ==
    IF event.label \notin DOMAIN event2id
    THEN [acc EXCEPT !.status = "KeyError", !.events = Append(@, event)]
    ELSE LET roles == Append(event.roles,
                        [label |-> TriggerWord, offset |-> event.trigger.offset,
                         text |-> FALSE])
             visited == [acc EXCEPT !.events = Append(@, [event EXCEPT !.roles = roles])]
         IN graph_outer(visited, roles, 1, event2id[event.label], offset_mapping)

RECURSIVE graph_events(_, _, _, _)
graph_events(acc, events, offset_mapping, event2id) ==
    IF Len(events) = 0 THEN acc
    ELSE IF acc.status # "ok" THEN [acc EXCEPT !.events = @ \o events]
    ELSE graph_events(
            graph_event(acc, Head(events), offset_mapping, event2id),
            Tail(events), offset_mapping, event2id)

graph_example(events, offset_mapping, event2id) ==
    LET acc == graph_events(zeros, events, offset_mapping, event2id)
        num_events == Cardinality(DOMAIN event2id)
    IN [status |-> acc.status, events |-> acc.events,
        role_tags |-> [labels |-> 1, cells |-> acc.role_tags],
        head_tags |-> [labels |-> num_events, cells |-> acc.head_tags],
        tail_tags |-> [labels |-> num_events, cells |-> acc.tail_tags]]

\* event_labels is what the property returned: [ok, val], val the list.
\* The result's role_tags, head_tags, tail_tags are the batch's role_ids,
\* head_ids, tail_ids.
graph_transform(batch, event_labels) ==
    IF Len(batch.events) > 0 /\ ~event_labels.ok THEN raised("ValueError", batch)
    ELSE batch_loop(
            [b \in 1..Len(batch.events) |->
                graph_example(batch.events[b], tokenizer(get_max_length),
                              enumerate2id(event_labels.val))],
            batch.events)

----------------------------------------------------------------------------
(* sparse_transform *)

sparse_role2(acc, _role1_head, _role1_tail, role2, offset_mapping) ==
    LET role2_head == role2.offset[1]
        role2_tail == role2.offset[2] - 1
        _role2_head == char_idx_to_token(role2_head, offset_mapping)
        _role2_tail == char_idx_to_token(role2_tail, offset_mapping)
    IN IF ~(role2_tail >= role2_head) THEN [acc EXCEPT !.status = "AssertionError"]
       ELSE IF _role2_head.ok /\ _role2_tail.ok
       THEN [acc EXCEPT
               !.head_tags = @ \cup {<<0, Min(_role1_head, _role2_head.val),
                                        Max(_role1_head, _role2_head.val)>>},
               !.tail_tags = @ \cup {<<0, Min(_role1_tail, _role2_tail.val),
                                        Max(_role1_tail, _role2_tail.val)>>}]
       ELSE warning(acc, role2)

RECURSIVE sparse_inner(_, _, _, _, _, _, _)
sparse_inner(acc, roles, i, j, _role1_head, _role1_tail, offset_mapping) ==
    IF j > Len(roles) \/ acc.status # "ok" THEN acc
    ELSE sparse_inner(
            IF j > i
            THEN sparse_role2(acc, _role1_head, _role1_tail, roles[j], offset_mapping)
            ELSE acc,
            roles, i, j + 1, _role1_head, _role1_tail, offset_mapping)

sparse_role1(acc, roles, i, e_label, offset_mapping, combined2id) ==
    LET role1 == roles[i]
        label == <<e_label, role1.label>>
        role1_head == role1.offset[1]
        role1_tail == role1.offset[2] - 1
        _role1_head == char_idx_to_token(role1_head, offset_mapping)
        _role1_tail == char_idx_to_token(role1_tail, offset_mapping)
    IN IF ~(role1_tail >= role1_head) THEN [acc EXCEPT !.status = "AssertionError"]
       ELSE IF _role1_head.ok /\ _role1_tail.ok /\ label \in DOMAIN combined2id
       THEN sparse_inner(
               [acc EXCEPT !.role_tags =
                   @ \cup {<<combined2id[label], _role1_head.val, _role1_tail.val>>}],
               roles, i, 1, _role1_head.val, _role1_tail.val, offset_mapping)
       ELSE warning(acc, role1)

RECURSIVE sparse_outer(_, _, _, _, _, _)
sparse_outer(acc, roles, i, e_label, offset_mapping, combined2id) ==
    IF i > Len(roles) \/ acc.status # "ok" THEN acc
    ELSE sparse_outer(
            sparse_role1(acc, roles, i, e_label, offset_mapping, combined2id),
            roles, i + 1, e_label, offset_mapping, combined2id)

\* assert trigger_tail > trigger_head comes before the append.
sparse_event(acc, event, offset_mapping, combined2id) ==
    LET trigger_head == event.trigger.offset[1]
        trigger_tail == event.trigger.offset[2]
        roles == Append(event.roles,
                    [label |-> TriggerWord, offset |-> <<trigger_head, trigger_tail>>,
                     text |-> FALSE])
        visited == [acc EXCEPT !.events = Append(@, [event EXCEPT !.roles = roles])]
    IN IF ~(trigger_tail > trigger_head)
       THEN [acc EXCEPT !.status = "AssertionError", !.events = Append(@, event)]
       ELSE sparse_outer(visited, roles, 1, event.label, offset_mapping, combined2id)

RECURSIVE sparse_events(_, _, _, _)
sparse_events(acc, events, offset_mapping, combined2id) ==
    IF Len(events) = 0 THEN acc
    ELSE IF acc.status # "ok" THEN [acc EXCEPT !.events = @ \o events]
    ELSE sparse_events(
            sparse_event(acc, Head(events), offset_mapping, combined2id),
            Tail(events), offset_mapping, combined2id)

\* if not tag: tag.add((0,0))
sentinel(tag) == IF tag = {} THEN {<<0, 0>>} ELSE tag

SetMax(S) == IF S = {} THEN 0 ELSE CHOOSE x \in S : \A y \in S : y <= x

\* sequence_padding(): every coordinate list is right-padded with (0, 0) rows
\* to `length` rows.  A padded list is kept as the set of its rows.
pad_to(tag, rows, length) == IF rows < length THEN tag \cup {<<0, 0>>} ELSE tag

sequence_padding(tags) ==
    LET length == SetMax({Cardinality(tags[l]) : l \in 1..Len(tags)})
    IN [rows |-> length,
        coords |-> [l \in 1..Len(tags) |-> pad_to(tags[l], Cardinality(tags[l]), length)]]

\* The coordinate sets of one example: one set per label id, in id order.
sparse_example(events, offset_mapping, combined2id) ==
    LET acc == sparse_events(zeros, events, offset_mapping, combined2id)
        n == Cardinality(DOMAIN combined2id)
        role_tags == [l \in 1..n |->
                        sentinel({<<c[2], c[3]>> : c \in {d \in acc.role_tags : d[1] = l - 1}})]
        head_tags == <<sentinel({<<c[2], c[3]>> : c \in acc.head_tags})>>
        tail_tags == <<sentinel({<<c[2], c[3]>> : c \in acc.tail_tags})>>
    IN [status |-> acc.status, events |-> acc.events,
        role_tags |-> sequence_padding(role_tags),
        head_tags |-> sequence_padding(head_tags),
        tail_tags |-> sequence_padding(tail_tags)]

\* sequence_padding(batch, seq_dims=2): pads every example to the longest of the batch.
batch_padding(tags) ==
    LET length == SetMax({tags[b].rows : b \in 1..Len(tags)})
    IN [b \in 1..Len(tags) |->
          [rows |-> length,
           coords |-> [l \in 1..Len(tags[b].coords) |->
                         pad_to(tags[b].coords[l], tags[b].rows, length)]]]

\* combined2id is what the property returned: [ok, val], val the dict.
sparse_transform(batch, combined2id) ==
    IF Len(batch.events) > 0 /\ ~combined2id.ok THEN raised("ValueError", batch)
    ELSE LET r == batch_loop(
                    [b \in 1..Len(batch.events) |->
                        sparse_example(batch.events[b], tokenizer(get_max_length),
                                       combined2id.val)],
                    batch.events)
         IN IF r.status # "ok" THEN r
            ELSE [r EXCEPT !.role_tags = batch_padding(@),
                           !.head_tags = batch_padding(@),
                           !.tail_tags = batch_padding(@)]

----------------------------------------------------------------------------
(* The vocabularies as the data module's methods read them *)

\* event2id / role2id / combined2id from what the cached property returned
to_2id(res) ==
    [ok |-> res.ok, val |-> IF res.ok THEN enumerate2id(res.val) ELSE <<>>]

\* ent2id: trigger_labels (from event_labels), then role_labels, then sorted
ent2id_of(events, roles) ==
    [ok |-> events.ok /\ roles.ok,
     val |-> IF events.ok /\ roles.ok
             THEN enumerate2id(ent_labels_of(events.val, roles.val)) ELSE <<>>]

\* The cache after a method read the properties ps one after the other; a
\* property that raises ends the method.
RECURSIVE cache_after(_, _, _)
cache_after(c, ps, df) ==
    IF Len(ps) = 0 THEN c
    ELSE IF ~access(c, Head(ps), df).res.ok THEN c
    ELSE cache_after(access(c, Head(ps), df).cache, Tail(ps), df)

\* What those reads returned, per property.
RECURSIVE reads_of(_, _, _)
reads_of(c, ps, df) ==
    IF Len(ps) = 0 THEN {}
    ELSE LET a == access(c, Head(ps), df)
         IN {<<Head(ps), a.res>>}
            \cup (IF a.res.ok THEN reads_of(a.cache, Tail(ps), df) ELSE {})

note(obs, reads) ==
    [p \in Properties |-> obs[p] \cup {rd[2] : rd \in {x \in reads : x[1] = p}}]

----------------------------------------------------------------------------
(* __init__ and setup *)

transforms == {"event-role-head-tail", "role-head-tail", "head-tail", "sparse-gplinker"}

\* The default value of the constructor's transform parameter
default_transform == "combined-head-tail"

no_hparams == [id2label |-> <<>>, id2event |-> <<>>, id2role |-> <<>>]

no_encoder == [train |-> "none", validation |-> "none"]

\* A constructor without the assertion on the transform.
Construct_unchecked ==
    /\ stage = "new"
    /\ stage' = "constructed"
    /\ UNCHANGED <<net, transform, hparams, installed, train_df, cache, observed, pc,
                   examples, loaded, split, calls, out>>

\* assert self.hparams.transform in self.transforms
Construct ==
    /\ stage = "new"
    /\ stage' = IF transform \in transforms THEN "constructed" ELSE "AssertionError"
    /\ UNCHANGED <<net, transform, hparams, installed, train_df, cache, observed, pc,
                   examples, loaded, split, calls, out>>

\* The cached properties setup reads, in order, for each transform.
setup_reads(t) ==
    CASE t = "event-role-head-tail" -> <<"combined_labels">>
      [] t = "role-head-tail" -> <<"event_labels", "event_labels", "role_labels">>
      [] t = "head-tail" -> <<"event_labels">>
      [] t = "sparse-gplinker" -> <<"combined_labels">>
      [] OTHER -> <<>>

setup_hparams(t, c, df) ==
    CASE t \in {"event-role-head-tail", "sparse-gplinker"} ->
            [no_hparams EXCEPT !.id2label =
                invert(to_2id(access(c, "combined_labels", df).res).val)]
      [] t = "role-head-tail" ->
            [no_hparams EXCEPT
                !.id2event = invert(to_2id(access(c, "event_labels", df).res).val),
                !.id2role = invert(ent2id_of(access(c, "event_labels", df).res,
                                             access(c, "role_labels", df).res).val)]
      [] t = "head-tail" ->
            [no_hparams EXCEPT !.id2label =
                invert(to_2id(access(c, "event_labels", df).res).val)]
      [] OTHER -> no_hparams

setup_installs(t) ==
    CASE t = "event-role-head-tail" ->
            [train |-> "gplinker_transform", validation |-> "gplinker_transform"]
      [] t = "role-head-tail" ->
            [train |-> "blinker_transform", validation |-> "blinker_transform"]
      [] t = "head-tail" ->
            [train |-> "graph_transform", validation |-> "graph_transform"]
      [] t = "sparse-gplinker" ->
            [train |-> "sparse_transform", validation |-> "gplinker_transform"]
      [] OTHER -> no_encoder

setup ==
    /\ stage = "constructed"
    /\ LET ps == setup_reads(transform)
           reads == reads_of(cache, ps, train_df)
           fine == \A rd \in reads : rd[2].ok
       IN /\ cache' = cache_after(cache, ps, train_df)
          /\ observed' = note(observed, reads)
          /\ stage' = IF fine THEN "ready" ELSE "ValueError"
          /\ hparams' = IF fine THEN setup_hparams(transform, cache, train_df)
                        ELSE hparams
          /\ installed' = IF fine THEN setup_installs(transform) ELSE installed
    /\ UNCHANGED <<net, transform, train_df, pc, examples, loaded, split, calls, out>>

----------------------------------------------------------------------------
(* Encoding a batch *)

\* At most this many annotated roles in one event
MaxRoles == 2

\* At most this many encoder calls on one batch object
MaxCalls == 2

\* Reader threads of the cached properties
NReaders == 2

\* At most this many rows in a training frame
MaxRows == 2

\* 'E', 'F'
EventLabels == {<<69>>, <<70>>}

\* 'a', 'b'
RoleLabels == {<<97>>, <<98>>}

\* With tokens [CLS] c0 c1 c2 [SEP]: a span that aligns, 'a' on two tokens
\* and 'b' on the second of them; the tail cut off by truncation; end not
\* greater than start (and no character before it).
RoleSpans(l) == {IF l = <<97>> THEN <<1, 3>> ELSE <<2, 3>>, <<2, 4>>, <<0, 0>>}

\* One token, before the roles; beyond the truncated text; end not greater
\* than start.
TriggerSpans == {<<0, 1>>, <<3, 4>>, <<2, 2>>}

Role(l, sp) == [label |-> l, offset |-> sp, text |-> TRUE]

Event(l, sp, rs) == [label |-> l, trigger |-> [offset |-> sp, text |-> TRUE], roles |-> rs]

RoleLists(n) ==
    UNION {[1..k -> UNION {{Role(l, sp) : sp \in RoleSpans(l)} : l \in RoleLabels}] :
           k \in 0..n}

EventSet(n) ==
    {Event(l, sp, rs) : l \in EventLabels, sp \in TriggerSpans, rs \in RoleLists(n)}

\* A second event of an example: its trigger alone, on another token.
BareEvents == {Event(l, <<1, 2>>, <<>>) : l \in EventLabels}

\* The examples of a split: no event; one event of at most MaxRoles roles;
\* or an event of fewer roles followed by a bare event.
Examples ==
    {<<>>} \cup {<<e>> : e \in EventSet(MaxRoles)}
           \cup {<<e, f>> : e \in EventSet(MaxRoles - 1), f \in BareEvents}

\* The training frame the encoders are run against: (F, b) is a pair the
\* training split does not hold.
TrainFit ==
    << <<Event(<<69>>, <<0, 1>>, <<Role(<<97>>, <<1, 3>>), Role(<<98>>, <<2, 3>>)>>)>>,
       <<Event(<<70>>, <<0, 1>>, <<Role(<<97>>, <<1, 3>>)>>)>> >>

no_batch == [events |-> <<>>]

no_out ==
    [fn |-> "none", status |-> "none", role_tags |-> <<>>, head_tags |-> <<>>,
     tail_tags |-> <<>>]

\* The dataset hands a batch of one freshly decoded example to the transform.
Load(sp, ex) ==
    /\ examples' = [events |-> <<ex>>]
    /\ loaded' = [events |-> <<ex>>]
    /\ split' = sp
    /\ calls' = 0
    /\ out' = no_out
    /\ UNCHANGED <<net, transform, stage, hparams, installed, train_df, cache, observed, pc>>

\* A batch of the training split is a row of the training frame.
LoadTrain ==
    /\ stage = "ready"
    /\ loaded = no_batch
    /\ \E i \in 1..Len(train_df) : Load("train", train_df[i])

\* A batch of the validation split is any example.
LoadValidation ==
    /\ stage = "ready"
    /\ loaded = no_batch
    /\ \E ex \in Examples : Load("validation", ex)

\* The cached properties an encoder reads.
encoder_reads(fn) ==
    IF fn \in {"gplinker_transform", "sparse_transform"} THEN <<"combined_labels">>
    ELSE <<"event_labels">>

\* The encoder fn called on batch by a data module whose cache is c.
call(fn, batch, c, df) ==
    CASE fn = "gplinker_transform" ->
            gplinker_transform(batch, to_2id(access(c, "combined_labels", df).res))
      [] fn = "blinker_transform" ->
            blinker_transform(batch, access(c, "event_labels", df).res)
      [] fn = "graph_transform" ->
            graph_transform(batch, access(c, "event_labels", df).res)
      [] fn = "sparse_transform" ->
            sparse_transform(batch, to_2id(access(c, "combined_labels", df).res))

Encode ==
    /\ stage = "ready"
    /\ loaded # no_batch
    /\ calls < MaxCalls
    /\ LET fn == installed[split]
           r == call(fn, examples, cache, train_df)
       IN /\ examples' = r.examples
          /\ out' = [fn |-> fn, status |-> r.status, role_tags |-> r.role_tags,
                     head_tags |-> r.head_tags, tail_tags |-> r.tail_tags]
          /\ cache' = cache_after(cache, encoder_reads(fn), train_df)
          /\ observed' = note(observed, reads_of(cache, encoder_reads(fn), train_df))
    /\ calls' = calls + 1
    /\ UNCHANGED <<net, transform, stage, hparams, installed, train_df, pc, loaded, split>>

----------------------------------------------------------------------------
(* Readers of the cached properties *)

Readers == 1..NReaders

\* A cache hit returns the stored list.
ReaderHit(r, p) ==
    /\ pc[r] = "idle"
    /\ lru_cache_get(cache, p).hit
    /\ observed' = note(observed, {<<p, Returned(lru_cache_get(cache, p).val)>>})
    /\ UNCHANGED <<net, transform, stage, hparams, installed, train_df, cache, pc,
                   examples, loaded, split, calls, out>>

\* A cache miss: the reader starts computing the property.
ReaderBegin(r, p) ==
    /\ pc[r] = "idle"
    /\ ~lru_cache_get(cache, p).hit
    /\ pc' = [pc EXCEPT ![r] = p]
    /\ UNCHANGED <<net, transform, stage, hparams, installed, train_df, cache, observed,
                   examples, loaded, split, calls, out>>

\* The computation ends: its result is stored and returned.
ReaderFinish(r) ==
    /\ pc[r] # "idle"
    /\ cache' = lru_cache_put(cache, pc[r], compute(pc[r], train_df))
    /\ observed' = note(observed, {<<pc[r], compute(pc[r], train_df)>>})
    /\ pc' = [pc EXCEPT ![r] = "idle"]
    /\ UNCHANGED <<net, transform, stage, hparams, installed, train_df, examples, loaded,
                   split, calls, out>>

----------------------------------------------------------------------------
(* The span models: BiaffineForEntityExtraction and BertGlobalPointer *)

\* Tokens of the sequence the logits are computed for
MaxTokens == 2

\* One label; a cell is (label id, start token, end token).
Cells == {0} \X (0..(MaxTokens - 1)) \X (0..(MaxTokens - 1))

\* Logits and thresholds in units of 0.5: -0.5, 0.0, 0.5, 1.0
Logits == {-1, 0, 1, 2}

\* 0.0, the default of BiaffineForEntityExtraction, and 0.5, that of
\* BertGlobalPointer
Thresholds == {0, 1}

\* logits.ge(threshold): the mask as the set of its cells that are 1
ge(logits, threshold) == {c \in DOMAIN logits : logits[c] >= threshold}

\* logits > threshold
gt(logits, threshold) == {c \in DOMAIN logits : logits[c] > threshold}

\* torch.nonzero(mask).tolist(): the indices of the cells that are set
nonzero(mask) == mask

\* SpanF1.update(pred, true)
SpanF1_update(metric, pred, true) ==
    [correct |-> metric.correct + Cardinality(pred \cap true),
     all_pred |-> metric.all_pred + Cardinality(pred),
     all_true |-> metric.all_true + Cardinality(true)]

SpanF1 == [correct |-> 0, all_pred |-> 0, all_true |-> 0]

no_net ==
    [class |-> "none", threshold |-> 0, logits |-> <<>>, span_ids |-> {},
     stepped |-> FALSE, pred |-> {}, val_metric |-> SpanF1,
     predicted |-> FALSE, spans_ls |-> {}, ents |-> {}]

\* BiaffineForEntityExtraction.step
step(logits, threshold) == ge(logits, threshold)

\* BertGlobalPointer.shared_step
shared_step(logits, threshold) == ge(logits, threshold)

\* validation_step: the mask of step / shared_step goes to the F1 metric.
validation_step(class, pred) ==
    /\ net.class = class
    /\ ~net.stepped
    /\ net' = [net EXCEPT !.stepped = TRUE, !.pred = pred,
                          !.val_metric = SpanF1_update(@, pred, net.span_ids)]
    /\ UNCHANGED <<transform, stage, hparams, installed, train_df, cache, observed,
                   pc, examples, loaded, split, calls, out>>

BiaffineForEntityExtraction_validation_step ==
    validation_step("BiaffineForEntityExtraction", step(net.logits, net.threshold))

BertGlobalPointer_validation_step ==
    validation_step("BertGlobalPointer", shared_step(net.logits, net.threshold))

\* predict: one entity per selected cell, (label id, start token, end token);
\* the tokenizer turns the tokens into characters.
predict(class, spans_ls) ==
    /\ net.class = class
    /\ ~net.predicted
    /\ net' = [net EXCEPT !.predicted = TRUE, !.spans_ls = spans_ls,
                          !.ents = {[label |-> span[1], start |-> span[2],
                                     end |-> span[3]] : span \in spans_ls}]
    /\ UNCHANGED <<transform, stage, hparams, installed, train_df, cache, observed,
                   pc, examples, loaded, split, calls, out>>

\* threshold = self.hparams.threshold; torch.nonzero(preds>threshold)
BiaffineForEntityExtraction_predict ==
    predict("BiaffineForEntityExtraction", nonzero(gt(net.logits, net.threshold)))

\* torch.nonzero(logits>0)
BertGlobalPointer_predict ==
    predict("BertGlobalPointer", nonzero(gt(net.logits, 0)))

----------------------------------------------------------------------------
(* Specifications *)

Start ==
    /\ hparams = no_hparams
    /\ installed = no_encoder
    /\ cache = [p \in Properties |-> Empty]
    /\ observed = [p \in Properties |-> {}]
    /\ pc = [r \in Readers |-> "idle"]
    /\ examples = no_batch
    /\ loaded = no_batch
    /\ split = "none"
    /\ calls = 0
    /\ out = no_out

\* A data module over the training frame TrainFit, encoding batches.
Init ==
    /\ Start
    /\ stage = "new"
    /\ transform \in transforms \cup {default_transform}
    /\ train_df = TrainFit
    /\ net = no_net

Next ==
    \/ Construct
    \/ setup
    \/ LoadTrain
    \/ LoadValidation
    \/ Encode

Spec == Init /\ [][Next]_vars

\* 'E-触发词': a role label that reads like a generated trigger label
RoleLabelsVocab == {<<97>>, <<69>> \o Dash \o TriggerWord}

\* A training row: no event; event E with at most one role; or event F,
\* a type that occurs without roles only.
TrainRows ==
    {<<>>, <<Event(<<70>>, <<0, 1>>, <<>>)>>} \cup
    {<<Event(<<69>>, <<0, 1>>, rs)>> :
        rs \in {<<>>} \cup {<<Role(rl, <<1, 3>>)>> : rl \in RoleLabelsVocab}}

TrainFrames == UNION {[1..k -> TrainRows] : k \in 0..MaxRows}

\* A constructed data module over any training frame, its vocabularies read
\* by setup and by concurrent readers.
InitVocab ==
    /\ Start
    /\ stage = "constructed"
    /\ transform = "role-head-tail"
    /\ train_df \in TrainFrames
    /\ net = no_net

NextVocab ==
    \/ setup
    \/ \E r \in Readers, p \in Properties : ReaderHit(r, p)
    \/ \E r \in Readers, p \in Properties : ReaderBegin(r, p)
    \/ \E r \in Readers : ReaderFinish(r)

SpecVocab == InitVocab /\ [][NextVocab]_vars

\* A span model with any configured threshold, and the logits and the true
\* spans of one input: the mask for the metric and the prediction are both
\* computed from these logits.  No data module is involved.
InitDecode ==
    /\ Start
    /\ stage = "none"
    /\ transform = "none"
    /\ train_df = <<>>
    /\ \E class \in {"BiaffineForEntityExtraction", "BertGlobalPointer"},
          threshold \in Thresholds, logits \in [Cells -> Logits],
          span_ids \in SUBSET Cells :
            net = [no_net EXCEPT !.class = class, !.threshold = threshold,
                                 !.logits = logits, !.span_ids = span_ids]

NextDecode ==
    \/ BiaffineForEntityExtraction_validation_step
    \/ BiaffineForEntityExtraction_predict
    \/ BertGlobalPointer_validation_step
    \/ BertGlobalPointer_predict

SpecDecode == InitDecode /\ [][NextDecode]_vars

----------------------------------------------------------------------------
(* Vocabulary of the properties checked below *)

Encoders ==
    {"gplinker_transform", "blinker_transform", "graph_transform", "sparse_transform"}

\* What an encoder call hands back: the exception, or the three tag batches.
Tags(r) ==
    [status |-> r.status, role_tags |-> r.role_tags, head_tags |-> r.head_tags,
     tail_tags |-> r.tail_tags]

\* The encoder fn run on a batch by this data module.
Run(fn, batch) == Tags(call(fn, batch, cache, train_df))

\* Span invariant of the data model: end > start.
WellFormed(offset) == offset[2] > offset[1]

\* Both ends of the span [start, end) fall on a token.
Aligned(offset) ==
    /\ char_idx_to_token(offset[1], tokenizer(get_max_length)).ok
    /\ char_idx_to_token(offset[2] - 1, tokenizer(get_max_length)).ok

HeadToken(offset) == char_idx_to_token(offset[1], tokenizer(get_max_length)).val

TailToken(offset) == char_idx_to_token(offset[2] - 1, tokenizer(get_max_length)).val

\* The list s without its k-th element.
Without(s, k) == SubSeq(s, 1, k - 1) \o SubSeq(s, k + 1, Len(s))

\* The batch with role k of event e of example b removed.
WithoutRole(batch, b, e, k) ==
    [batch EXCEPT !.events[b][e].roles = Without(@, k)]

\* The events of every example of a batch.
EventsOf(batch) == concatenate(batch.events)

\* The event labels of the training split.
KnownEvents == Range(event_labels_compute(train_df).val)

\* The (event, role) pairs that have a combined-label id.
KnownPairs == Range(combined_labels_compute(train_df).val)

\* Nothing but alignment can go wrong with the batch: every span is a span,
\* and every event label is one of the training split.
OnlyAlignmentCanFail(batch) ==
    \A i \in 1..Len(EventsOf(batch)) :
        LET ev == EventsOf(batch)[i]
        IN /\ WellFormed(ev.trigger.offset)
           /\ ev.label \in KnownEvents
           /\ \A k \in 1..Len(ev.roles) : WellFormed(ev.roles[k].offset)

----------------------------------------------------------------------------
(* C1: alignment failure containment.  For each of the four encoders, an   *)
(* annotated role (an entry of event['roles'] that carries its text) whose *)
(* span cannot be aligned to a token changes nothing: the call has exactly *)
(* the outcome and the tags of the call on the same batch with that role   *)
(* removed.  And a first call on a batch whose trigger spans all align     *)
(* and whose spans are all well formed returns its tags.                   *)
C1_FailureContained ==
    /\ \A fn \in Encoders :
         \A b \in 1..Len(examples.events) :
            \A e \in 1..Len(examples.events[b]) :
               \A k \in 1..Len(examples.events[b][e].roles) :
                  LET role == examples.events[b][e].roles[k]
                  IN (role.text /\ WellFormed(role.offset) /\ ~Aligned(role.offset))
                     => Run(fn, examples) = Run(fn, WithoutRole(examples, b, e, k))
    /\ ( /\ calls = 1
         /\ OnlyAlignmentCanFail(loaded)
         /\ \A i \in 1..Len(EventsOf(loaded)) : Aligned(EventsOf(loaded)[i].trigger.offset) )
       => out.status = "ok"

\* A first call returned its tags for an event that holds a role that cannot
\* be aligned next to one that can.
C1_Witness ==
    /\ calls = 1
    /\ out.fn = "gplinker_transform"
    /\ out.status = "ok"
    /\ \E i \in 1..Len(EventsOf(loaded)) :
         LET roles == EventsOf(loaded)[i].roles
         IN /\ Len(roles) = 2
            /\ WellFormed(roles[1].offset) /\ ~Aligned(roles[1].offset)
            /\ Aligned(roles[2].offset)
            /\ <<EventsOf(loaded)[i].label, roles[2].label>> \in KnownPairs
    /\ Cardinality(out.role_tags[1].cells) = 2
    /\ Cardinality(out.head_tags[1].cells) = 1

(* C2: an alignment failure never aborts the batch.  Whatever entry of an  *)
(* event's roles-plus-trigger list fails to align, the synthetic trigger   *)
(* role included, the encoder call returns a batch.                        *)
C2_NeverAborts ==
    (out.fn # "none" /\ OnlyAlignmentCanFail(loaded)) => out.status = "ok"

\* The nonzero coordinates of one label of a dense tensor.
DenseCoords(tensor, id) == {<<c[2], c[3]>> : c \in {d \in tensor.cells : d[1] = id}}

\* The coordinates of one label of a sparse array, the (0, 0) rows disregarded.
SparseCoords(array, id) == array.coords[id + 1] \ {<<0, 0>>}

SameCoords(tensors, arrays) ==
    \A b \in 1..Len(tensors) :
        /\ tensors[b].labels = Len(arrays[b].coords)
        /\ \A id \in 0..(tensors[b].labels - 1) :
              DenseCoords(tensors[b], id) = SparseCoords(arrays[b], id)

(* C3: sparse/dense equivalence.  On any batch, gplinker_transform raises  *)
(* exactly when sparse_transform raises, and when they return, the nonzero *)
(* coordinates of the dense role, head-pair and tail-pair tensors are, per *)
(* label, the coordinates of the sparse arrays without their (0, 0) rows.  *)
C3_SparseDenseEquivalent ==
    LET dense == Run("gplinker_transform", examples)
        sparse == Run("sparse_transform", examples)
    IN /\ (dense.status = "ok") <=> (sparse.status = "ok")
       /\ (dense.status = "ok" /\ sparse.status = "ok")
          => /\ SameCoords(dense.role_tags, sparse.role_tags)
             /\ SameCoords(dense.head_tags, sparse.head_tags)
             /\ SameCoords(dense.tail_tags, sparse.tail_tags)

\* The list s with its elements i and j exchanged.
Swap(s, i, j) == [s EXCEPT ![i] = s[j], ![j] = s[i]]

\* Every marked cell (x, y) of a batch of pair tags has x <= y.
Ordered(fn, tags) ==
    \A b \in 1..Len(tags) :
        IF fn = "sparse_transform"
        THEN \A l \in 1..Len(tags[b].coords) : \A c \in tags[b].coords[l] : c[1] <= c[2]
        ELSE \A c \in tags[b].cells : c[2] <= c[3]

(* C4: pairwise symmetry.  In gplinker_transform, blinker_transform and    *)
(* sparse_transform the head-pair and tail-pair tags of a batch do not     *)
(* depend on the order of an event's roles: exchanging any two entries of  *)
(* event['roles'] leaves them as they were; and every marked pair cell     *)
(* (x, y) has x <= y.                                                      *)
C4_PairwiseSymmetry ==
    \A fn \in {"gplinker_transform", "blinker_transform", "sparse_transform"} :
        /\ Ordered(fn, Run(fn, examples).head_tags)
        /\ Ordered(fn, Run(fn, examples).tail_tags)
        /\ \A b \in 1..Len(examples.events) :
             \A e \in 1..Len(examples.events[b]) :
                \A i, j \in 1..Len(examples.events[b][e].roles) :
                   LET permuted == [examples EXCEPT !.events[b][e].roles = Swap(@, i, j)]
                   IN /\ Run(fn, permuted).head_tags = Run(fn, examples).head_tags
                      /\ Run(fn, permuted).tail_tags = Run(fn, examples).tail_tags

\* The entries of an event's role list as a first encoder call sees it.
Entries(ev) == Append(ev.roles, [label |-> TriggerWord, offset |-> ev.trigger.offset])

\* The id setup stored for a combined label.
IdOf(label) == CHOOSE id \in DOMAIN hparams.id2label : hparams.id2label[id] = label

\* Every entry of the batch aligns, and its (event, role) pair has an id.
AllAlignAndKnown(batch) ==
    \A i \in 1..Len(EventsOf(batch)) :
        \A k \in 1..Len(Entries(EventsOf(batch)[i])) :
            /\ Aligned(Entries(EventsOf(batch)[i])[k].offset)
            /\ <<EventsOf(batch)[i].label, Entries(EventsOf(batch)[i])[k].label>>
                  \in KnownPairs

\* The (combined-label id, head token, tail token) triples of every event's
\* roles plus its trigger.
ExpectedRoleCells(events) ==
    UNION {{<<IdOf(<<events[i].label, Entries(events[i])[k].label>>),
              HeadToken(Entries(events[i])[k].offset),
              TailToken(Entries(events[i])[k].offset)>> :
               k \in 1..Len(Entries(events[i]))} : i \in 1..Len(events)}

\* The two distinct entries of one list.
DistinctEntries(entries) ==
    {p \in (1..Len(entries)) \X (1..Len(entries)) : p[1] # p[2]}

\* The (min, max) pairs of the tokens at(offset) of every two distinct
\* entries of one event, under the single pair label 0.
ExpectedPairCells(events, end) ==
    UNION {{LET x == IF end = "head" THEN HeadToken(Entries(events[i])[p[1]].offset)
                     ELSE TailToken(Entries(events[i])[p[1]].offset)
                y == IF end = "head" THEN HeadToken(Entries(events[i])[p[2]].offset)
                     ELSE TailToken(Entries(events[i])[p[2]].offset)
            IN <<0, Min(x, y), Max(x, y)>> :
               p \in DistinctEntries(Entries(events[i]))} : i \in 1..Len(events)}

\* One event, of one role, whose role and trigger are on different tokens.
OneRoleAndTrigger(events) ==
    /\ Len(events) = 1
    /\ Len(events[1].roles) = 1
    /\ HeadToken(events[1].roles[1].offset) # HeadToken(events[1].trigger.offset)
    /\ TailToken(events[1].roles[1].offset) # TailToken(events[1].trigger.offset)
    /\ WellFormed(events[1].roles[1].offset)
    /\ WellFormed(events[1].trigger.offset)

C6_InputUnchanged ==
    /\ examples = loaded
    /\ \A fn \in Encoders : Run(fn, examples) = Run(fn, loaded)
    /\ (calls >= 1 /\ out.status = "ok") => Tags(out) = Run(out.fn, loaded)

----------------------------------------------------------------------------
(* The vocabularies *)

\* The ids of a label-to-id map are exactly 0..n-1, n the number of labels,
\* and no two labels share an id.
Dense(label2id, labels) ==
    /\ DOMAIN label2id = labels
    /\ {label2id[l] : l \in DOMAIN label2id} = 0..(Cardinality(labels) - 1)
    /\ \A l, m \in DOMAIN label2id : label2id[l] = label2id[m] => l = m

\* Inverting the map loses no label.
Lossless(id2label, labels) ==
    /\ DOMAIN id2label = 0..(Cardinality(labels) - 1)
    /\ {id2label[i] : i \in DOMAIN id2label} = labels

\* What the readers of a property were handed, the returned lists only.
Lists(p) == {v.val : v \in {w \in observed[p] : w.ok}}

(* C7: an empty training corpus.  When no training example holds an event, *)
(* every vocabulary read returns the empty list, setup does not raise, and *)
(* the maps it builds are empty.                                           *)
C7_EmptyCorpus ==
    Len(concatenate(train_df)) = 0
    => /\ stage # "ValueError"
       /\ \A p \in Properties : \A v \in observed[p] : v = Returned(<<>>)
       /\ stage = "ready" => hparams.id2event = <<>> /\ hparams.id2role = <<>>

(* C8: every reader of a vocabulary sees the same mapping.  Whatever the   *)
(* interleaving of setup and of readers racing on the first access, all    *)
(* reads of one property give the same label-to-id map, the one a fresh    *)
(* build from the training frame gives, and the maps setup stored are      *)
(* built from it.                                                          *)
C8_SameMapping ==
    /\ \A p \in Properties :
         \A v \in observed[p] : to_2id(v) = to_2id(compute(p, train_df))
    /\ \A p \in Properties :
         lru_cache_get(cache, p).hit
         => Returned(lru_cache_get(cache, p).val) = compute(p, train_df)
    /\ stage = "ready"
       => /\ hparams.id2event = invert(to_2id(compute("event_labels", train_df)).val)
          /\ \A e \in observed["event_labels"] : \A r \in observed["role_labels"] :
               hparams.id2role = invert(ent2id_of(e, r).val)

\* setup and a reader have been handed the role labels while another reader,
\* which missed the cache before them, is still computing the list.
C8_Witness ==
    /\ stage = "ready"
    /\ lru_cache_get(cache, "role_labels").hit
    /\ Len(lru_cache_get(cache, "role_labels").val) = 2
    /\ lru_cache_get(cache, "event_labels").hit
    /\ observed["role_labels"] # {}
    /\ \E r \in Readers : pc[r] = "role_labels"

\* The pairs of the training events, and the trigger pair of every event.
TrainingPairs ==
    UNION {{<<concatenate(train_df)[i].label, TriggerWord>>}
           \cup {<<concatenate(train_df)[i].label, concatenate(train_df)[i].roles[k].label>> :
                    k \in 1..Len(concatenate(train_df)[i].roles)} :
           i \in 1..Len(concatenate(train_df))}

(* C9: the combined vocabulary.  The list combined_labels returns holds    *)
(* exactly the (event label, role label) pairs of the training events and  *)
(* the (event label, trigger label) pair of every training event label,    *)
(* the latter also for an event type without roles; it is in strictly      *)
(* ascending order, so no pair is in it twice.                             *)
C9_CombinedVocabulary ==
    \A labels \in Lists("combined_labels") :
        /\ Range(labels) = TrainingPairs
        /\ \A i, j \in 1..Len(labels) : i < j => PairLess(labels[i], labels[j])

\* A reader was handed the combined labels of a frame whose rows list event
\* F, without roles, ahead of event E, with a role.
C9_Witness ==
    /\ Len(train_df) = 2
    /\ Len(train_df[1]) = 1 /\ train_df[1][1].label = <<70>> /\ train_df[1][1].roles = <<>>
    /\ Len(train_df[2]) = 1 /\ train_df[2][1].label = <<69>> /\ Len(train_df[2][1].roles) = 1
    /\ \E labels \in Lists("combined_labels") :
         /\ Len(labels) = 3
         /\ labels[3] = <<<<70>>, TriggerWord>>

(* C10: each vocabulary is a bijection onto dense ids.  For every training *)
(* frame, event2id, role2id, ent2id and combined2id map the distinct       *)
(* labels of their list one-to-one onto 0..n-1, and the inverted maps      *)
(* setup stores lose no label; the entity vocabulary included when a role  *)
(* label reads like a generated trigger label.                             *)
C10_Bijection ==
    /\ \A p \in Properties : \A labels \in Lists(p) :
         Dense(enumerate2id(labels), Range(labels))
    /\ \A e \in Lists("event_labels") : \A r \in Lists("role_labels") :
         Dense(enumerate2id(ent_labels_of(e, r)), Range(ent_labels_of(e, r)))
    /\ stage = "ready"
       => /\ Lossless(hparams.id2event, Range(compute("event_labels", train_df).val))
          /\ Lossless(hparams.id2role,
                      Range(ent_labels_of(compute("event_labels", train_df).val,
                                          compute("role_labels", train_df).val)))

----------------------------------------------------------------------------
(* Construction *)

(* C11: an unrecognized strategy name fails fast.  A data module whose     *)
(* transform is not one of the four strategy names is rejected by the      *)
(* constructor and never gets to setup: nothing is installed for it; and   *)
(* when setup has completed, an encoder is installed for both splits and   *)
(* an id-to-label mapping of the selected strategy is stored.              *)
C11_FailsFast ==
    /\ transform \notin transforms
       => /\ stage \in {"new", "AssertionError"}
          /\ installed = no_encoder
          /\ hparams = no_hparams
    /\ stage = "ready"
       => /\ transform \in transforms
          /\ installed = setup_installs(transform)
          /\ installed.train \in Encoders /\ installed.validation \in Encoders
          /\ IF transform = "role-head-tail"
             THEN hparams.id2event # <<>> /\ hparams.id2role # <<>>
             ELSE hparams.id2label # <<>>

\* The constructor has rejected a transform that is none of the four.
C11_Witness == stage = "AssertionError" /\ transform \notin transforms

(* C16: the default transform is accepted.  A data module constructed with *)
(* the default value of the transform parameter passes the constructor's   *)
(* validation, and setup then installs an encoder.                         *)
C16_DefaultAccepted ==
    transform = default_transform
    => /\ stage # "AssertionError"
       /\ stage = "ready" => installed.train \in Encoders

----------------------------------------------------------------------------
(* Thresholding *)

(* C12: the threshold boundary.  Whatever turns logits into selected cells *)
(* applies logit > threshold with the configured threshold: the mask that  *)
(* step / shared_step hands to the F1 metric and the cells predict turns   *)
(* into spans hold no cell whose logit is not above the threshold, and for *)
(* the same logits they are the same cells, in both models.                *)
C12_StrictThreshold ==
    /\ net.stepped => net.pred = {c \in Cells : net.logits[c] > net.threshold}
    /\ net.predicted => net.spans_ls = {c \in Cells : net.logits[c] > net.threshold}
    /\ (net.stepped /\ net.predicted) => net.pred = net.spans_ls

----------------------------------------------------------------------------
(* Spans that are no spans, the graph encoder, and backed links *)

\* Some role or trigger of the batch has an end that is not greater than
\* its start.
Malformed(batch) ==
    \E i \in 1..Len(EventsOf(batch)) :
        \/ ~WellFormed(EventsOf(batch)[i].trigger.offset)
        \/ \E k \in 1..Len(EventsOf(batch)[i].roles) :
              ~WellFormed(EventsOf(batch)[i].roles[k].offset)

(* C13: a malformed span is fatal.  On a batch that holds a role or a      *)
(* trigger whose end offset is not greater than its start offset, each of  *)
(* the four encoders stops with an assertion failure: it neither returns   *)
(* tags nor ends in another way.                                           *)
C13_MalformedIsFatal ==
    Malformed(examples)
    => \A fn \in Encoders : Run(fn, examples).status = "AssertionError"

\* The ordered pairs of distinct entries of one event that both align, as
\* cells under the event's id.
ExpectedGraphCells(events, end) ==
    UNION {{<<IdOf(events[i].label),
              IF end = "head" THEN HeadToken(Entries(events[i])[p[1]].offset)
              ELSE TailToken(Entries(events[i])[p[1]].offset),
              IF end = "head" THEN HeadToken(Entries(events[i])[p[2]].offset)
              ELSE TailToken(Entries(events[i])[p[2]].offset)>> :
               p \in {q \in DistinctEntries(Entries(events[i])) :
                         /\ Aligned(Entries(events[i])[q[1]].offset)
                         /\ Aligned(Entries(events[i])[q[2]].offset)}} :
           i \in 1..Len(events)}

Symmetric(cells) == \A c \in cells : <<c[1], c[3], c[2]>> \in cells

(* C14: the ordered pairs of graph_transform.  When a first call of        *)
(* graph_transform returns, the head (tail) tensor holds exactly the cells *)
(* [event id][head_i][head_j] ([event id][tail_i][tail_j]) of every        *)
(* ordered pair i # j of entries of one event's roles-plus-trigger list    *)
(* that both align, without min/max; so both tensors are symmetric for     *)
(* each event type, and no cell is set under the id of another event.      *)
C14_GraphOrderedPairs ==
    (calls = 1 /\ out.fn = "graph_transform" /\ out.status = "ok")
    => \A b \in 1..Len(loaded.events) :
          /\ out.head_tags[b].cells = ExpectedGraphCells(loaded.events[b], "head")
          /\ out.tail_tags[b].cells = ExpectedGraphCells(loaded.events[b], "tail")
          /\ Symmetric(out.head_tags[b].cells)
          /\ Symmetric(out.tail_tags[b].cells)
          /\ \A c \in out.head_tags[b].cells \cup out.tail_tags[b].cells :
                \E i \in 1..Len(loaded.events[b]) : c[1] = IdOf(loaded.events[b][i].label)

\* graph_transform returned the tags of an event whose two roles and trigger
\* are on three different head tokens.
C14_Witness ==
    /\ calls = 1
    /\ out.fn = "graph_transform"
    /\ out.status = "ok"
    /\ Len(loaded.events[1]) = 1
    /\ Len(loaded.events[1][1].roles) = 2
    /\ Cardinality(out.head_tags[1].cells) = 6
    /\ \E c \in out.head_tags[1].cells : c[2] > c[3]

\* Every pair cell (a, b) has a role cell at a and a role cell at b; at(c)
\* is the head or the tail token of a role cell.
Backed(pairs, roles, end) ==
    \A p \in pairs :
        /\ \E c \in roles : (IF end = "head" THEN c[1] ELSE c[2]) = p[1]
        /\ \E c \in roles : (IF end = "head" THEN c[1] ELSE c[2]) = p[2]

\* The role cells of an example, whatever their label: dense, (head, tail)
\* of every nonzero cell; sparse, the rows of every label without (0, 0).
RoleCellsOf(fn, tag) ==
    IF fn = "sparse_transform"
    THEN UNION {tag.coords[l] : l \in 1..Len(tag.coords)} \ {<<0, 0>>}
    ELSE {<<c[2], c[3]>> : c \in tag.cells}

PairCellsOf(fn, tag) ==
    IF fn = "sparse_transform" THEN tag.coords[1] \ {<<0, 0>>}
    ELSE {<<c[2], c[3]>> : c \in tag.cells}

(* C15: links are backed by role cells.  In gplinker_transform and         *)
(* sparse_transform, on any batch, every marked head-pair cell (a, b) has  *)
(* a marked role cell with head token a and one with head token b, and     *)
(* every marked tail-pair cell has role cells with those tail tokens.      *)
C15_LinksBacked ==
    \A fn \in {"gplinker_transform", "sparse_transform"} :
        LET r == Run(fn, examples)
        IN r.status = "ok"
           => \A b \in 1..Len(r.role_tags) :
                 /\ Backed(PairCellsOf(fn, r.head_tags[b]),
                           RoleCellsOf(fn, r.role_tags[b]), "head")
                 /\ Backed(PairCellsOf(fn, r.tail_tags[b]),
                           RoleCellsOf(fn, r.role_tags[b]), "tail")

====
